---- MODULE Spec2Model ----
(***************************************************************************)
(* Event stock control (src/app.py): the three document collections, the   *)
(* per-session state of the Streamlit script and one action per store      *)
(* operation of every form handler.  A script run that performs several    *)
(* store operations (create_user: find_one then insert_one; the movement   *)
(* form: read, insert_one, update_one) is split at those operations, so    *)
(* that runs of two browser sessions interleave as the store allows.       *)
(*                                                                         *)
(* Text that the code trims, measures, upper-cases or sorts is a sequence  *)
(* of one-character strings, so that strip(), len(), upper() and the       *)
(* ordering of sort_values are computed and not assumed.                   *)
(***************************************************************************)
EXTENDS Integers, Sequences, FiniteSets, TLC

VARIABLES users, items, movements, session_user, run, shown

vars == <<users, items, movements, session_user, run, shown>>

\* ------------------------------------------------------------------ bounds
MaxUsers == 2
MaxItems == 2
MaxMovs == 2
\* The three collections together hold at most MaxDocs documents.
MaxDocs == 4

\* ---------------------------------------------------------------- sessions
Sessions == {"s1", "s2"}

\* Python's None / an absent optional value, and a present one.
None == <<>>
Some(x) == <<x>>

\* -------------------------------------------------------------------- text
LowerLetters == <<"a", "b", "c", "d", "e", "f", "g", "h", "i", "j", "k", "l", "m",
                  "n", "o", "p", "q", "r", "s", "t", "u", "v", "w", "x", "y", "z">>
UpperLetters == <<"A", "B", "C", "D", "E", "F", "G", "H", "I", "J", "K", "L", "M",
                  "N", "O", "P", "Q", "R", "S", "T", "U", "V", "W", "X", "Y", "Z">>
DigitChars == <<"0", "1", "2", "3", "4", "5", "6", "7", "8", "9">>

\* The characters of the model in code point order (tab, space, '-', digits,
\* upper case, lower case), which is the order Python compares str by.
Alphabet == <<"\t", " ", "-">> \o DigitChars \o UpperLetters \o LowerLetters

Ord(c) == CHOOSE i \in 1..Len(Alphabet) : Alphabet[i] = c

IsSpace(c) == c \in {" ", "\t"}

\* str.strip(): leading and trailing whitespace removed.
RECURSIVE LStrip(_)
LStrip(t) == IF t # <<>> /\ IsSpace(Head(t)) THEN LStrip(Tail(t)) ELSE t

RECURSIVE RStrip(_)
RStrip(t) ==
    IF t # <<>> /\ IsSpace(t[Len(t)]) THEN RStrip(SubSeq(t, 1, Len(t) - 1)) ELSE t

Strip(t) == RStrip(LStrip(t))

UpperChar(c) ==
    IF \E i \in 1..Len(LowerLetters) : LowerLetters[i] = c
    THEN UpperLetters[CHOOSE i \in 1..Len(LowerLetters) : LowerLetters[i] = c]
    ELSE c

\* No case folding.
UpperUnchanged(t) == t

\* str.upper()
Upper(t) == [i \in 1..Len(t) |-> UpperChar(t[i])]

\* Python's str < str: lexicographic by code point, a proper prefix first.
RECURSIVE TextLess(_, _)
TextLess(a, b) ==
    IF b = <<>> THEN FALSE
    ELSE IF a = <<>> THEN TRUE
    ELSE IF Head(a) = Head(b) THEN TextLess(Tail(a), Tail(b))
    ELSE Ord(Head(a)) < Ord(Head(b))

\* A field stored as null (an older document): no form input produces it.
NULL == <<"<null>">>

\* ------------------------------------------------------------ form inputs
\* What a user may type into a username box: blank, plain, padded.
UsernameInputs == {<<" ">>, <<"a">>, <<" ", "b">>}

\* Passwords typed: one of four characters, one shorter than the minimum.
PasswordInputs == {<<"p", "a", "s", "s">>, <<"p", "w">>}

MinPasswordLen == 4

\* ------------------------------------------------------------------ bcrypt
\* bcrypt.gensalt() draws a fresh salt.
Salts == {"salt1"}

\* bcrypt.hashpw(password, salt): the salt and a digest of salt and password.
hashpw(password, salt) == [salt |-> salt, digest |-> <<salt, password>>]

\* bcrypt.checkpw(password, hashed): re-hash under the stored salt and compare.
checkpw(password, hashed) == hashpw(password, hashed.salt) = hashed

\* ------------------------------------------------------- users collection
\* users_col.find_one({"username": username}): the first match in natural
\* (insertion) order, or None.
find_user(us, username) ==
    IF \E i \in 1..Len(us) : us[i].username = username
    THEN Some(us[CHOOSE i \in 1..Len(us) :
                    /\ us[i].username = username
                    /\ \A j \in 1..(i - 1) : us[j].username # username])
    ELSE None

\* users_col.insert_one({...}) of create_user.
insert_user(us, username, password_hash, is_admin) ==
    Append(us, [username |-> username,
                password_hash |-> Some(password_hash),
                is_admin |-> is_admin])

\* A login that accepts any password for a user that has a hash.
authenticate_user_any_password(us, username, password) ==
    LET user == find_user(us, username) IN
    IF user = None THEN [ok |-> FALSE, user |-> None]
    ELSE IF user[1].password_hash = None THEN [ok |-> FALSE, user |-> None]
    ELSE [ok |-> TRUE, user |-> user]

\* authenticate_user(username, password) -> (ok, user)
authenticate_user(us, username, password) ==
    LET user == find_user(us, username) IN
    IF user = None THEN [ok |-> FALSE, user |-> None]
    ELSE IF user[1].password_hash = None THEN [ok |-> FALSE, user |-> None]
    ELSE IF checkpw(password, user[1].password_hash[1])
         THEN [ok |-> TRUE, user |-> user]
         ELSE [ok |-> FALSE, user |-> None]

\* ------------------------------------------------------- stock documents
\* The "Item type" options of the forms (a subset of the five of the source).
Book == <<"B", "o", "o", "k">>
ItemTypeOptions == {Book}

\* The "Movement type" radio.
TypeIN == <<"I", "N">>
TypeOUT == <<"O", "U", "T">>
MovementTypeOptions == {TypeIN, TypeOUT}

\* What a user may type as a new exhibitor name, and as a location.
ExhibitorInputs == {<<" ">>, <<"A">>, <<"B", " ">>}
LocationInputs == {<<>>, <<"B", "1", " ">>}
NotesInputs == {<<>>}

\* The "Open stock" number input (min_value=0).
OpenStockInputs == {0, 1}

\* The "Movement date" picker, a datetime.date.
\* Two consecutive days whose day numbers differ in their number of digits, so
\* that the order of the stored text and the order of the days could differ.
Day1 == [year |-> 2025, month |-> 11, day |-> 9]
Day2 == [year |-> 2025, month |-> 11, day |-> 10]

\* What the movement form submits besides the selection: movement type,
\* quantity (at least 1) and date; every value of each field occurs.
MovementInputs ==
    {[movement_type |-> TypeIN, quantity |-> 1, movement_date |-> Day1],
     [movement_type |-> TypeIN, quantity |-> 2, movement_date |-> Day2],
     [movement_type |-> TypeOUT, quantity |-> 1, movement_date |-> Day2],
     [movement_type |-> TypeOUT, quantity |-> 2, movement_date |-> Day1]}

\* A stored quantity: an integer (what the application writes), a string, or
\* no "quantity" key at all (documents written by something else).
IntQ(n) == [k |-> "int", v |-> n]
StrQ(t) == [k |-> "str", v |-> t]
AbsentQ == [k |-> "absent"]

\* str(ObjectId): the store assigns ids; the model numbers the documents.
StrId(id) == ToString(id)

\* Decimal digits of n, zero-padded to width characters.
RECURSIVE ZeroPad(_, _)
ZeroPad(n, width) ==
    IF width = 0 THEN <<>>
    ELSE Append(ZeroPad(n \div 10, width - 1), DigitChars[(n % 10) + 1])

\* datetime.date.isoformat(): YYYY-MM-DD
isoformat(d) ==
    ZeroPad(d.year, 4) \o <<"-">> \o ZeroPad(d.month, 2) \o <<"-">> \o ZeroPad(d.day, 2)

insert_stock_item(its, exhibitor_name, item_type, open_stock, location) ==
    Append(its, [_id |-> Len(its) + 1,
                 exhibitor_name |-> exhibitor_name,
                 item_type |-> item_type,
                 open_stock |-> open_stock,
                 location |-> location])

\* A write that replaces the newest record instead of appending (a lost write).
insert_movement_replacing(movs, stock_item_id, movement_type, quantity, movement_date, notes) ==
    LET doc == [stock_item_id |-> stock_item_id,
                movement_date |-> isoformat(movement_date),
                movement_type |-> movement_type,
                quantity |-> IntQ(quantity),
                notes |-> notes]
    IN IF movs = <<>> THEN <<doc>> ELSE [movs EXCEPT ![Len(movs)] = doc]

insert_movement(movs, stock_item_id, movement_type, quantity, movement_date, notes) ==
    Append(movs, [stock_item_id |-> stock_item_id,
                  movement_date |-> isoformat(movement_date),
                  movement_type |-> movement_type,
                  quantity |-> IntQ(quantity),
                  notes |-> notes])

\* An update that reaches the last matching document instead of the first.
update_last_match(its, exhibitor_name, item_type, location) ==
    LET Match(i) == its[i].exhibitor_name = exhibitor_name /\ its[i].item_type = item_type IN
    IF \E i \in 1..Len(its) : Match(i)
    THEN LET last == CHOOSE i \in 1..Len(its) :
                         Match(i) /\ \A j \in (i + 1)..Len(its) : ~Match(j)
         IN [its EXCEPT ![last].location = location]
    ELSE its

\* An update that writes the location and resets the opening balance.
update_resetting_open_stock(its, exhibitor_name, item_type, location) ==
    LET Match(i) == its[i].exhibitor_name = exhibitor_name /\ its[i].item_type = item_type IN
    IF \E i \in 1..Len(its) : Match(i)
    THEN LET first == CHOOSE i \in 1..Len(its) :
                          Match(i) /\ \A j \in 1..(i - 1) : ~Match(j)
         IN [its EXCEPT ![first].location = location, ![first].open_stock = 0]
    ELSE its

\* items_col.update_one({"exhibitor_name": e, "item_type": t},
\*                      {"$set": {"location": loc}}): the first document in
\* natural order that matches, if any, gets the location.
update_one_location(its, exhibitor_name, item_type, location) ==
    LET Match(i) == its[i].exhibitor_name = exhibitor_name /\ its[i].item_type = item_type IN
    IF \E i \in 1..Len(its) : Match(i)
    THEN LET first == CHOOSE i \in 1..Len(its) :
                          Match(i) /\ \A j \in 1..(i - 1) : ~Match(j)
         IN [its EXCEPT ![first].location = location]
    ELSE its

\* ------------------------------------------------------------ aggregation
IsDigits(t) == t # <<>> /\ \A i \in 1..Len(t) : \E d \in 1..10 : DigitChars[d] = t[i]

RECURSIVE DigitsValue(_)
DigitsValue(t) ==
    IF t = <<>> THEN 0
    ELSE 10 * DigitsValue(SubSeq(t, 1, Len(t) - 1))
         + (CHOOSE d \in 0..9 : DigitChars[d + 1] = t[Len(t)])

\* Whether .astype(int) converts the value (int(x) of a non-numeric str raises).
IntConvertible(q) == q.k = "str" => IsDigits(Strip(q.v))

\* df_mov["quantity"].fillna(0).astype(int), for one value.
QuantityAsInt(q) ==
    IF q.k = "int" THEN q.v
    ELSE IF q.k = "absent" THEN 0
    ELSE DigitsValue(Strip(q.v))

\* movement_type_norm: .astype(str).str.strip().str.upper()
movement_type_norm(t) == Upper(Strip(t))

\* .map({"IN": 1, "OUT": -1}).fillna(0)
sign(t) ==
    IF movement_type_norm(t) = TypeIN THEN 1
    ELSE IF movement_type_norm(t) = TypeOUT THEN -1
    ELSE 0

delta(m) == QuantityAsInt(m.quantity) * sign(m.movement_type)

\* groupby("stock_item_id")["delta"].sum(), for one stock_item_id.
RECURSIVE SumDelta(_, _)
SumDelta(movs, id) ==
    IF movs = <<>> THEN 0
    ELSE (IF Head(movs).stock_item_id = id THEN delta(Head(movs)) ELSE 0)
         + SumDelta(Tail(movs), id)

\* The row with current_stock floored at zero.
StockRowClamped(it, movs) ==
    LET movement_delta == SumDelta(movs, StrId(it._id))
        total == it.open_stock + movement_delta
    IN [id |-> StrId(it._id),
        exhibitor_name |-> it.exhibitor_name,
        item_type |-> it.item_type,
        location |-> it.location,
        open_stock |-> it.open_stock,
        movement_delta |-> movement_delta,
        current_stock |-> IF total < 0 THEN 0 ELSE total]

\* The left merge on id, fillna(0) and the current_stock column, for one item.
StockRow(it, movs) ==
    LET movement_delta == SumDelta(movs, StrId(it._id)) IN
    [id |-> StrId(it._id),
     exhibitor_name |-> it.exhibitor_name,
     item_type |-> it.item_type,
     location |-> it.location,
     open_stock |-> it.open_stock,
     movement_delta |-> movement_delta,
     current_stock |-> it.open_stock + movement_delta]

\* Ordering of one sort key; a null sorts last (na_position="last").
KeyLess(a, b) ==
    IF a = NULL THEN FALSE
    ELSE IF b = NULL THEN TRUE
    ELSE TextLess(a, b)

\* r1 strictly before r2 by ["exhibitor_name", "item_type"].
RowLess(r1, r2) ==
    \/ KeyLess(r1.exhibitor_name, r2.exhibitor_name)
    \/ /\ r1.exhibitor_name = r2.exhibitor_name
       /\ KeyLess(r1.item_type, r2.item_type)

\* Insert r, which follows every row of the sorted rows in the input, after
\* the rows it does not precede: equal keys keep their input order.
RECURSIVE InsertRow(_, _)
InsertRow(rows, r) ==
    IF rows = <<>> THEN <<r>>
    ELSE IF RowLess(r, Head(rows)) THEN <<r>> \o rows
    ELSE <<Head(rows)>> \o InsertRow(Tail(rows), r)

\* sort_values(by=["exhibitor_name", "item_type"]): a stable lexsort.
RECURSIVE sort_values(_)
sort_values(rows) ==
    IF rows = <<>> THEN <<>>
    ELSE InsertRow(sort_values(SubSeq(rows, 1, Len(rows) - 1)), rows[Len(rows)])

\* Whether get_items_with_current_stock raises on these collections: with no
\* items it returns before reading the movements; otherwise df_mov["quantity"]
\* is a KeyError when no movement has the key, and .astype(int) a ValueError
\* on a string that int() does not accept.
AggregationRaises(its, movs) ==
    /\ its # <<>>
    /\ movs # <<>>
    /\ \/ \A i \in 1..Len(movs) : movs[i].quantity.k = "absent"
       \/ \E i \in 1..Len(movs) : ~IntConvertible(movs[i].quantity)

\* get_items_with_current_stock(): the rows of the returned frame, in order.
get_items_with_current_stock(its, movs) ==
    IF AggregationRaises(its, movs)
    THEN [raised |-> TRUE, df |-> <<>>]
    ELSE [raised |-> FALSE,
          df |-> sort_values([i \in 1..Len(its) |-> StockRow(its[i], movs)])]

\* get_exhibitor_options(): distinct non-blank exhibitor names, stripped.
get_exhibitor_options(its) ==
    {Strip(its[i].exhibitor_name) : i \in {j \in 1..Len(its) :
        its[j].exhibitor_name # NULL /\ Strip(its[j].exhibitor_name) # <<>>}}

\* ---------------------------------------------------------------- history
\* mov_col.find({"stock_item_id": id}): the matching documents in natural order.
find_movements(movs, stock_item_id) ==
    SelectSeq(movs, LAMBDA m : m.stock_item_id = stock_item_id)

\* Insert r, which follows every row of rows in the input, into rows sorted by
\* movement_date descending, after the rows whose date is not earlier: the
\* dates are compared as the stored text; equal dates keep their input order.
RECURSIVE InsertByDateDesc(_, _)
InsertByDateDesc(rows, r) ==
    IF rows = <<>> THEN <<r>>
    ELSE IF TextLess(Head(rows).movement_date, r.movement_date) THEN <<r>> \o rows
    ELSE <<Head(rows)>> \o InsertByDateDesc(Tail(rows), r)

\* .sort("movement_date", -1) of the cursor and
\* sort_values(by=["movement_date"], ascending=False) of the frame.
RECURSIVE sort_by_date_desc(_)
sort_by_date_desc(rows) ==
    IF rows = <<>> THEN <<>>
    ELSE InsertByDateDesc(sort_by_date_desc(SubSeq(rows, 1, Len(rows) - 1)),
                          rows[Len(rows)])

\* df[["movement_date", "movement_type", "quantity", "notes"]], for one row.
HistoryRow(m) ==
    [movement_date |-> m.movement_date,
     movement_type |-> m.movement_type,
     quantity |-> m.quantity,
     notes |-> m.notes]

\* Whether get_movements_for_item raises: selecting the "quantity" column is
\* a KeyError when none of the matching documents has the key.
HistoryRaises(movs, stock_item_id) ==
    LET found == find_movements(movs, stock_item_id) IN
    /\ found # <<>>
    /\ \A i \in 1..Len(found) : found[i].quantity.k = "absent"

\* The history in the order the documents were stored.
get_movements_for_item_unsorted(movs, stock_item_id) ==
    LET found == find_movements(movs, stock_item_id) IN
    IF HistoryRaises(movs, stock_item_id)
    THEN [raised |-> TRUE, df |-> <<>>]
    ELSE [raised |-> FALSE, df |-> [i \in 1..Len(found) |-> HistoryRow(found[i])]]

\* get_movements_for_item(stock_item_id): the rows of the returned frame.
get_movements_for_item(movs, stock_item_id) ==
    LET found == sort_by_date_desc(find_movements(movs, stock_item_id)) IN
    IF HistoryRaises(movs, stock_item_id)
    THEN [raised |-> TRUE, df |-> <<>>]
    ELSE [raised |-> FALSE,
          df |-> sort_by_date_desc([i \in 1..Len(found) |-> HistoryRow(found[i])])]

\* --------------------------------------------------------- movement form
\* pandas' == on a column: a null equals nothing, itself included.
PdEq(a, b) == a # NULL /\ b # NULL /\ a = b

\* exhibitors = sorted(items_df["exhibitor_name"].unique().tolist())
ExhibitorsOf(df) == {df[i].exhibitor_name : i \in 1..Len(df)}

\* sorted() of a list that mixes None with str raises TypeError.
SortedRaises(values) == NULL \in values /\ Cardinality(values) > 1

\* types_for_exhibitor, with its fallback to the full option list.
types_for_exhibitor(df, selected_exhibitor) ==
    LET found == {df[i].item_type : i \in {j \in 1..Len(df) :
                     PdEq(df[j].exhibitor_name, selected_exhibitor)}}
    IN IF found = {} THEN ItemTypeOptions ELSE found

\* selected_row: the rows of items_df of the selected exhibitor and type.
selected_row(df, selected_exhibitor, selected_item_type) ==
    SelectSeq(df, LAMBDA r : /\ PdEq(r.exhibitor_name, selected_exhibitor)
                             /\ PdEq(r.item_type, selected_item_type))

\* stock_item_id = selected_row.iloc[0]["id"], or None.
stock_item_id_of(rows) == IF rows = <<>> THEN None ELSE Some(rows[1].id)

\* ------------------------------------------------------------ script runs
\* What the step just taken rendered with st.error, st.warning or st.success
\* ("" when it rendered nothing).
Message(s, text) == text


Idle == [pc |-> "idle"]

IsIdle(s) == run[s].pc = "idle"

\* Script runs that are inside create_user and will still insert a user.
UsersInFlight == Cardinality({s \in Sessions : run[s].pc \in {"cu_find", "cu_insert"}})

\* Script runs that are about to insert a movement.
MovsInFlight == Cardinality({s \in Sessions : run[s].pc = "mv_insert"})

\* Documents stored, and documents that running scripts will still store.
DocsCommitted == Len(users) + Len(items) + Len(movements) + UsersInFlight + MovsInFlight

\* ------------------------------------------------------------------- Init
Init ==
    /\ users = <<>>
    /\ items = <<>>
    /\ movements = <<>>
    /\ session_user = [s \in Sessions |-> None]
    /\ run = [s \in Sessions |-> Idle]
    /\ shown = ""

\* ------------------------------------------------------- auth_guard forms
\* The form handler of "create_admin_form": shown while nobody is logged in
\* in this session and the users collection is empty.
CreateAdminSubmit(s, username, pw1, pw2) ==
    /\ IsIdle(s)
    /\ session_user[s] = None
    /\ Len(users) = 0
    /\ Len(users) + UsersInFlight < MaxUsers
    /\ DocsCommitted < MaxDocs
    /\ IF Strip(username) = <<>>
       THEN /\ shown' = Message(s, "Username is required.")
            /\ run' = run
       ELSE IF pw1 # pw2
       THEN /\ shown' = Message(s, "Passwords do not match.")
            /\ run' = run
       ELSE IF Len(pw1) < MinPasswordLen
       THEN /\ shown' = Message(s, "Use a password with at least 4 characters.")
            /\ run' = run
       ELSE /\ shown' = Message(s, "")
            /\ run' = [run EXCEPT ![s] = [pc |-> "cu_find", username |-> Strip(username),
                                          password |-> pw1, is_admin |-> TRUE]]
    /\ UNCHANGED <<users, items, movements, session_user>>

\* The form handler of "login_form": shown while nobody is logged in in this
\* session and users exist.
LoginSubmit(s, username, password) ==
    /\ IsIdle(s)
    /\ session_user[s] = None
    /\ Len(users) # 0
    /\ LET res == authenticate_user(users, Strip(username), password) IN
       IF res.ok
       THEN /\ session_user' = [session_user EXCEPT ![s] =
                    Some([username |-> res.user[1].username,
                          is_admin |-> res.user[1].is_admin])]
            /\ shown' = Message(s, "Login successful!")
       ELSE /\ session_user' = session_user
            /\ shown' = Message(s, "Invalid username or password.")
    /\ UNCHANGED <<users, items, movements, run>>

\* The "Logout" button.
Logout(s) ==
    /\ IsIdle(s)
    /\ session_user[s] # None
    /\ session_user' = [session_user EXCEPT ![s] = None]
    /\ shown' = Message(s, "")
    /\ UNCHANGED <<users, items, movements, run>>

\* The form handler of "add_user_form_dashboard", rendered for admins only.
AddUserSubmit(s, new_username, new_pw1, new_pw2, is_admin_new) ==
    /\ IsIdle(s)
    /\ session_user[s] # None
    /\ session_user[s][1].is_admin
    /\ Len(users) + UsersInFlight < MaxUsers
    /\ DocsCommitted < MaxDocs
    /\ IF Strip(new_username) = <<>>
       THEN /\ shown' = Message(s, "Username is required.")
            /\ run' = run
       ELSE IF new_pw1 # new_pw2
       THEN /\ shown' = Message(s, "Passwords do not match.")
            /\ run' = run
       ELSE /\ shown' = Message(s, "")
            /\ run' = [run EXCEPT ![s] = [pc |-> "cu_find", username |-> Strip(new_username),
                                          password |-> new_pw1, is_admin |-> is_admin_new]]
    /\ UNCHANGED <<users, items, movements, session_user>>

\* create_user without its duplicate check.
CreateUserFindUnchecked(s) ==
    /\ run[s].pc = "cu_find"
    /\ shown' = Message(s, "")
    /\ run' = [run EXCEPT ![s] = [run[s] EXCEPT !.pc = "cu_insert"]]
    /\ UNCHANGED <<users, items, movements, session_user>>

\* create_user, first store operation: find_one and the duplicate check.
CreateUserFind(s) ==
    /\ run[s].pc = "cu_find"
    /\ IF find_user(users, run[s].username) # None
       THEN /\ shown' = Message(s, "Username already exists.")
            /\ run' = [run EXCEPT ![s] = Idle]
       ELSE /\ shown' = Message(s, "")
            /\ run' = [run EXCEPT ![s] = [run[s] EXCEPT !.pc = "cu_insert"]]
    /\ UNCHANGED <<users, items, movements, session_user>>

\* create_user, second store operation: hash the password and insert_one.
CreateUserInsert(s) ==
    /\ run[s].pc = "cu_insert"
    /\ \E salt \in Salts :
         users' = insert_user(users, run[s].username,
                              hashpw(run[s].password, salt), run[s].is_admin)
    /\ shown' = Message(s, IF session_user[s] = None
                             THEN "Admin user created successfully."
                             ELSE "User created successfully!")
    /\ run' = [run EXCEPT ![s] = Idle]
    /\ UNCHANGED <<items, movements, session_user>>

\* ------------------------------------------------------- add-item form
\* The first option of the "Exhibitor" select box of the add-item form.
AddNewExhibitor == <<"+">>

\* The add-item handler writing before it validates.
AddItemSubmitUnvalidated(s, exhibitor_choice, new_name, item_type, open_stock, location) ==
    /\ IsIdle(s)
    /\ session_user[s] # None
    /\ Len(items) < MaxItems
    /\ DocsCommitted < MaxDocs
    /\ exhibitor_choice \in {AddNewExhibitor} \cup get_exhibitor_options(items)
    /\ LET exhibitor_name_effective ==
               IF exhibitor_choice = AddNewExhibitor THEN Strip(new_name)
               ELSE exhibitor_choice
       IN /\ shown' = Message(s, IF exhibitor_name_effective = <<>>
                                 THEN "Exhibitor name is required."
                                 ELSE "Item added successfully!")
          /\ items' = insert_stock_item(items, exhibitor_name_effective, item_type,
                                        open_stock, Strip(location))
    /\ UNCHANGED <<users, movements, session_user, run>>

\* The form handler of "add_item_form" (page "Add / Edit Items").
AddItemSubmit(s, exhibitor_choice, new_name, item_type, open_stock, location) ==
    /\ IsIdle(s)
    /\ session_user[s] # None
    /\ Len(items) < MaxItems
    /\ DocsCommitted < MaxDocs
    /\ exhibitor_choice \in {AddNewExhibitor} \cup get_exhibitor_options(items)
    /\ LET exhibitor_name_effective ==
               IF exhibitor_choice = AddNewExhibitor THEN Strip(new_name)
               ELSE exhibitor_choice
       IN IF exhibitor_name_effective = <<>>
          THEN /\ shown' = Message(s, "Exhibitor name is required.")
               /\ items' = items
          ELSE /\ shown' = Message(s, "Item added successfully!")
               /\ items' = insert_stock_item(items, exhibitor_name_effective, item_type,
                                             open_stock, Strip(location))
    /\ UNCHANGED <<users, movements, session_user, run>>

\* ------------------------------------------------------- movement form
\* The form handler of "movement_form" (page "Add Movement"), up to its first
\* write: the run reads items_df, resolves the selected row and its id.
MovementSubmit(s, selected_exhibitor, selected_item_type, location_box) ==
    /\ IsIdle(s)
    /\ session_user[s] # None
    /\ Len(movements) + MovsInFlight < MaxMovs
    /\ DocsCommitted < MaxDocs
    /\ LET items_df == get_items_with_current_stock(items, movements) IN
       IF items_df.raised \/ SortedRaises(ExhibitorsOf(items_df.df))
       THEN \* the script run ends in an uncaught exception
            /\ shown' = Message(s, "Traceback (most recent call last)")
            /\ run' = run
       ELSE /\ items_df.df # <<>>
            /\ selected_exhibitor \in ExhibitorsOf(items_df.df)
            /\ selected_item_type \in types_for_exhibitor(items_df.df, selected_exhibitor)
            /\ LET stock_item_id == stock_item_id_of(
                       selected_row(items_df.df, selected_exhibitor, selected_item_type))
               IN IF stock_item_id = None
                  THEN /\ shown' = Message(s, "No stock record found.")
                       /\ run' = run
                  ELSE /\ shown' = Message(s, "")
                       /\ run' = [run EXCEPT ![s] =
                              [pc |-> "mv_insert",
                               stock_item_id |-> stock_item_id[1],
                               selected_exhibitor |-> selected_exhibitor,
                               selected_item_type |-> selected_item_type,
                               location_box |-> location_box]]
    /\ UNCHANGED <<users, items, movements, session_user>>

\* 1) Save the movement with notes: insert_movement.
MovementInsert(s, movement_type, quantity, movement_date, notes) ==
    /\ run[s].pc = "mv_insert"
    /\ movements' = insert_movement(movements, run[s].stock_item_id, movement_type,
                                    quantity, movement_date, Strip(notes))
    /\ run' = [run EXCEPT ![s] = [run[s] EXCEPT !.pc = "mv_update"]]
    /\ shown' = Message(s, "")
    /\ UNCHANGED <<users, items, session_user>>

\* 2) Update the item's current location in stock_items: update_one.
MovementUpdateLocation(s) ==
    /\ run[s].pc = "mv_update"
    /\ items' = update_one_location(items, run[s].selected_exhibitor,
                                    run[s].selected_item_type, Strip(run[s].location_box))
    /\ shown' = Message(s, "Movement saved and location updated!")
    /\ run' = [run EXCEPT ![s] = Idle]
    /\ UNCHANGED <<users, movements, session_user>>

\* Every value an exhibitor select box can hold.
ExhibitorChoices == {NULL, AddNewExhibitor} \cup {Strip(e) : e \in ExhibitorInputs}

\* The steps of the login, first-run and add-user forms.
NextUsers ==
    \/ \E s \in Sessions, u \in UsernameInputs, p1, p2 \in PasswordInputs :
         CreateAdminSubmit(s, u, p1, p2)
    \/ \E s \in Sessions, u \in UsernameInputs, p \in PasswordInputs :
         LoginSubmit(s, u, p)
    \/ \E s \in Sessions : Logout(s)
    \/ \E s \in Sessions, u \in UsernameInputs, p1, p2 \in PasswordInputs, a \in BOOLEAN :
         AddUserSubmit(s, u, p1, p2, a)
    \/ \E s \in Sessions : CreateUserFind(s)
    \/ \E s \in Sessions : CreateUserInsert(s)

\* The steps of the add-item and movement forms.
NextStock ==
    \/ \E s \in Sessions, c \in ExhibitorChoices, n \in ExhibitorInputs,
          t \in ItemTypeOptions, o \in OpenStockInputs, l \in LocationInputs :
         AddItemSubmit(s, c, n, t, o, l)
    \/ \E s \in Sessions, e \in ExhibitorChoices, t \in ItemTypeOptions,
          l \in LocationInputs :
         MovementSubmit(s, e, t, l)
    \/ \E s \in Sessions, m \in MovementInputs, n \in NotesInputs :
         MovementInsert(s, m.movement_type, m.quantity, m.movement_date, n)
    \/ \E s \in Sessions : MovementUpdateLocation(s)

Next == NextUsers \/ NextStock

\* The whole application, from an empty database.
Spec == Init /\ [][Next]_vars

\* The user forms alone, from an empty database.
SpecUsers == Init /\ [][NextUsers]_vars

\* The stock forms alone, both sessions logged in as the one stored user.
LongPassword == <<"p", "a", "s", "s">>

AdminB == [username |-> <<"b">>,
           password_hash |-> Some(hashpw(LongPassword, "salt1")),
           is_admin |-> TRUE]

InitStock ==
    /\ users = <<AdminB>>
    /\ items = <<>>
    /\ movements = <<>>
    /\ session_user = [s \in Sessions |-> Some([username |-> <<"b">>, is_admin |-> TRUE])]
    /\ run = [s \in Sessions |-> Idle]
    /\ shown = ""

SpecStock == InitStock /\ [][NextStock]_vars

\* ------------------------------------------- stores with older documents
\* Documents that were written by something other than this application
\* (the code tolerates "older documents"): a user without a password hash, an
\* item whose exhibitor_name is null, movements whose movement_type is spelled
\* freely and whose quantity is a string or missing.
NoHashA == [username |-> <<"a">>, password_hash |-> None, is_admin |-> TRUE]

LegacyItem(id, exhibitor_name) ==
    [_id |-> id, exhibitor_name |-> exhibitor_name, item_type |-> Book,
     open_stock |-> 1, location |-> <<>>]

LegacyTypes == {TypeIN, <<"i", "n">>, <<" ", "O", "u", "t", "\t">>, <<"X", "Y", "Z">>}

LegacyQuantities == {IntQ(2), AbsentQ, StrQ(<<"a", "b", "c">>), StrQ(<<"7">>)}

LegacyMovements ==
    [stock_item_id : {StrId(1), StrId(2)},
     movement_date : {isoformat(Day1)},
     movement_type : LegacyTypes,
     quantity : LegacyQuantities,
     notes : {<<>>}]

LegacyStores ==
    {[users |-> <<>>, items |-> <<LegacyItem(1, NULL)>>, movements |-> <<>>],
     [users |-> <<NoHashA, AdminB>>, items |-> <<>>, movements |-> <<>>]}
    \cup {[users |-> <<AdminB>>,
           items |-> <<LegacyItem(1, <<"A">>), LegacyItem(2, <<"B">>)>>,
           movements |-> ms] :
             ms \in {<<m>> : m \in LegacyMovements}
                    \cup {<<m1, m2>> : m1 \in LegacyMovements, m2 \in LegacyMovements}}

InitLegacy ==
    /\ \E store \in LegacyStores :
         /\ users = store.users
         /\ items = store.items
         /\ movements = store.movements
    /\ session_user = [s \in Sessions |-> None]
    /\ run = [s \in Sessions |-> Idle]
    /\ shown = ""

SpecLegacy == InitLegacy /\ [][Next]_vars

\* ===================================================================
\* Properties
\* ===================================================================

\* The frame the dashboard shows for the stored collections.
CurrentView == get_items_with_current_stock(items, movements)

\* Sum of the quantities of the movements of item id whose type is type.
RECURSIVE TotalOfType(_, _, _)
TotalOfType(movs, id, type) ==
    IF movs = <<>> THEN 0
    ELSE (IF Head(movs).stock_item_id = id /\ Head(movs).movement_type = type
          THEN Head(movs).quantity.v ELSE 0)
         + TotalOfType(Tail(movs), id, type)

\* C1: whatever items and movements the application has inserted,
\* get_items_with_current_stock returns one row per stored item with
\* movement_delta = (sum of its IN quantities) - (sum of its OUT quantities)
\* over the movements whose stock_item_id is the item's id, and
\* current_stock = open_stock + movement_delta; no movements give 0 and
\* open_stock, and a negative current_stock is reported, not floored at 0.
C1_CurrentStock ==
    /\ ~CurrentView.raised
    /\ Len(CurrentView.df) = Len(items)
    /\ \A i \in 1..Len(items) : \E r \in 1..Len(CurrentView.df) :
         LET id == StrId(items[i]._id)
             net == TotalOfType(movements, id, TypeIN) - TotalOfType(movements, id, TypeOUT)
             row == CurrentView.df[r]
         IN /\ row.id = id
            /\ row.open_stock = items[i].open_stock
            /\ row.movement_delta = net
            /\ row.current_stock = items[i].open_stock + net
            /\ (\A k \in 1..Len(movements) : movements[k].stock_item_id # id)
                 => row.movement_delta = 0 /\ row.current_stock = items[i].open_stock

\* C1 witness: one item is reported below zero while another item, without
\* movements, is reported at its open_stock.
C1_Witness ==
    /\ \E r \in 1..Len(CurrentView.df) : CurrentView.df[r].current_stock < 0
    /\ \E i \in 1..Len(items) :
         \A k \in 1..Len(movements) : movements[k].stock_item_id # StrId(items[i]._id)

\* The current_stock of every item, by id.
StockByItem(its, movs) ==
    LET view == get_items_with_current_stock(its, movs)
    IN {<<view.df[r].id, view.df[r].current_stock>> : r \in 1..Len(view.df)}

\* The orders in which n documents can have been written.
Orders(n) == {f \in [1..n -> 1..n] : \A a, b \in 1..n : f[a] = f[b] => a = b}

\* The totals do not depend on the order of the stored movements.
C2_OrderIndependent ==
    \A f \in Orders(Len(movements)) :
        StockByItem(items, [k \in 1..Len(movements) |-> movements[f[k]]])
            = StockByItem(items, movements)

\* No step removes or replaces a movement, and an insert adds exactly one.
C2_NoLostMovement ==
    /\ Len(movements') >= Len(movements)
    /\ SubSeq(movements', 1, Len(movements)) = movements
    /\ \A s \in Sessions :
          (run[s].pc = "mv_insert" /\ run'[s].pc = "mv_update")
            => /\ Len(movements') = Len(movements) + 1
               /\ movements'[Len(movements')].stock_item_id = run[s].stock_item_id

\* C2: the current_stock of every item is the same for every order in which
\* the stored movements could have been written, so every interleaving of the
\* movement saves of two sessions gives the same totals; and every save adds
\* its movement to the collection without removing or replacing another.
C2_ConcurrentSaves == [](C2_OrderIndependent) /\ [][C2_NoLostMovement]_vars

\* C2 witness: both sessions are inside a movement save for the same item,
\* both have inserted, and the two movements differ.
C2_Witness ==
    /\ run["s1"].pc = "mv_update"
    /\ run["s2"].pc = "mv_update"
    /\ run["s1"].stock_item_id = run["s2"].stock_item_id
    /\ Len(movements) = 2
    /\ movements[1] # movements[2]

\* The index of the first user document with this username.
FirstUser(username) ==
    CHOOSE i \in 1..Len(users) :
        /\ users[i].username = username
        /\ \A j \in 1..(i - 1) : users[j].username # username

\* The stored spellings that trim and case-fold to IN, and to OUT.
C3_InSpellings == {<<"I", "N">>, <<"i", "n">>}
C3_OutSpellings == {<<"O", "U", "T">>, <<" ", "O", "u", "t", "\t">>}

C3_Contribution(m) ==
    IF m.movement_type \in C3_InSpellings THEN QuantityAsInt(m.quantity)
    ELSE IF m.movement_type \in C3_OutSpellings THEN 0 - QuantityAsInt(m.quantity)
    ELSE 0

RECURSIVE C3_Delta(_, _)
C3_Delta(movs, id) ==
    IF movs = <<>> THEN 0
    ELSE (IF Head(movs).stock_item_id = id THEN C3_Contribution(Head(movs)) ELSE 0)
         + C3_Delta(Tail(movs), id)

\* C3: in the aggregation a movement counts +quantity when its movement_type,
\* trimmed and upper-cased, is IN, -quantity when it is OUT, and 0 for every
\* other spelling; the spelling never makes the aggregation raise, and another
\* item's total is the sum of that item's own movements only.
C3_SignByNormalisedType ==
    /\ (\A k \in 1..Len(movements) : movements[k].quantity.k = "int") => ~CurrentView.raised
    /\ ~CurrentView.raised =>
         /\ Len(CurrentView.df) = Len(items)
         /\ \A r \in 1..Len(CurrentView.df) :
              CurrentView.df[r].movement_delta = C3_Delta(movements, CurrentView.df[r].id)

\* C3 witness: a lower-case "in" counted for one item and an unknown type
\* counted as 0 for the other.
C3_Witness ==
    /\ ~CurrentView.raised
    /\ Len(movements) = 2
    /\ movements[1].movement_type = <<"i", "n">>
    /\ movements[2].movement_type = <<"X", "Y", "Z">>
    /\ movements[1].stock_item_id # movements[2].stock_item_id
    /\ \E r \in 1..Len(CurrentView.df) : CurrentView.df[r].movement_delta > 0
    /\ \E r \in 1..Len(CurrentView.df) : CurrentView.df[r].movement_delta = 0

\* A step of create_user's find_one for a username that is stored.
C4_DuplicateStep ==
    \A s \in Sessions :
        (/\ run[s].pc = "cu_find"
         /\ run'[s] # run[s]
         /\ \E i \in 1..Len(users) : users[i].username = run[s].username)
          => /\ users' = users
             /\ run'[s] = Idle
             /\ shown' = "Username already exists."

\* C4: create_user for a username that a stored user already has ends with
\* the duplicate-username error and leaves the users collection as it was.
C4_DuplicateRejected == [][C4_DuplicateStep]_vars

\* C4 witness: the duplicate error has just been rendered and the user it
\* collided with is stored.
C4_Witness == shown = "Username already exists." /\ users # <<>>

\* C5: no two user documents have the same username.
C5_UniqueUsernames ==
    \A i, j \in 1..Len(users) : users[i].username = users[j].username => i = j

\* The one answer of a failed authentication.
C6_Failure == [ok |-> FALSE, user |-> None]

C6_Authenticate ==
    \A u \in {Strip(x) : x \in UsernameInputs}, p \in PasswordInputs :
        LET res == authenticate_user(users, u, p) IN
        IF \A i \in 1..Len(users) : users[i].username # u THEN res = C6_Failure
        ELSE LET stored == users[FirstUser(u)] IN
             IF stored.password_hash = None THEN res = C6_Failure
             ELSE IF stored.password_hash[1].digest # <<stored.password_hash[1].salt, p>>
                  THEN res = C6_Failure
                  ELSE res = [ok |-> TRUE, user |-> Some(stored)]

C6_SessionStep ==
    \A s \in Sessions :
        (session_user'[s] # session_user[s] /\ session_user'[s] # None)
          => /\ \E i \in 1..Len(users) : users[i].username = session_user'[s][1].username
             /\ LET stored == users[FirstUser(session_user'[s][1].username)] IN
                /\ stored.password_hash # None
                /\ session_user'[s][1].is_admin = stored.is_admin
             /\ shown' = "Login successful!"

\* C6: authenticate_user answers (False, None) for an unknown username, for a
\* user without a password hash and for a password that is not the one the
\* stored hash was made from, and (True, the stored document) otherwise; a
\* session that becomes logged in holds the username and the is_admin flag of
\* the stored document.
C6_Login == [](C6_Authenticate) /\ [][C6_SessionStep]_vars

\* C6 witness: a user without a password hash is stored, and a session has
\* just logged in as another user and carries that user's is_admin.
C6_Witness ==
    /\ \E i \in 1..Len(users) : users[i].password_hash = None
    /\ shown = "Login successful!"
    /\ \E s \in Sessions :
         /\ session_user[s] # None
         /\ session_user[s][1].is_admin = users[FirstUser(session_user[s][1].username)].is_admin

\* The two writes of a movement save, against the id the run resolved.
C7_SaveSteps ==
    \A s \in Sessions :
        /\ (run[s].pc = "mv_insert" /\ run'[s].pc = "mv_update")
             => /\ Len(movements') = Len(movements) + 1
                /\ SubSeq(movements', 1, Len(movements)) = movements
                /\ movements'[Len(movements')].stock_item_id = run[s].stock_item_id
                /\ items' = items
                /\ \E i \in 1..Len(items) :
                     /\ StrId(items[i]._id) = run[s].stock_item_id
                     /\ items[i].exhibitor_name = run[s].selected_exhibitor
                     /\ items[i].item_type = run[s].selected_item_type
        /\ (run[s].pc = "mv_update" /\ run'[s].pc = "idle")
             => /\ movements' = movements
                /\ Len(items') = Len(items)
                /\ \A i \in 1..Len(items) :
                     items'[i] = IF StrId(items[i]._id) = run[s].stock_item_id
                                 THEN [items[i] EXCEPT !.location = Strip(run[s].location_box)]
                                 ELSE items[i]

\* C7: saving a movement appends one movement that references the selected
\* item, an item of the selected exhibitor and type, and then sets the
\* location of that item and of no other, also when items share the pair.
C7_LocationOfReferencedItem == [][C7_SaveSteps]_vars

\* C7 witness: a save has just completed while two items share exhibitor and
\* item type; the newest movement references the first of them, which has the
\* new location, and the other has not.
C7_Witness ==
    /\ shown = "Movement saved and location updated!"
    /\ Len(items) = 2 /\ Len(movements) >= 1
    /\ items[1].exhibitor_name = items[2].exhibitor_name
    /\ items[1].item_type = items[2].item_type
    /\ movements[Len(movements)].stock_item_id = StrId(items[1]._id)
    /\ items[1].location = <<"B", "1">>
    /\ items[2].location = <<>>

\* The messages of the rejections.
C8_Rejections ==
    {"Username is required.", "Passwords do not match.",
     "Exhibitor name is required.", "No stock record found."}

C8_RejectedStep ==
    shown' \in C8_Rejections
      => users' = users /\ items' = items /\ movements' = movements

\* C8: a submission that is rejected for an empty username, a password
\* mismatch, an empty exhibitor name or a selection without a stock record
\* writes nothing to users, stock_items or stock_movements.
C8_RejectedNoWrite == [][C8_RejectedStep]_vars

\* C8 witness: a movement was submitted for a selection without a stock
\* record and the message was rendered.
C8_Witness == shown = "No stock record found." /\ items # <<>>

\* A quantity that is missing or that int() does not accept.
C9_Malformed(q) == q.k = "absent" \/ (q.k = "str" /\ ~IsDigits(Strip(q.v)))

C9_Zeroed(movs) ==
    [k \in 1..Len(movs) |->
        IF C9_Malformed(movs[k].quantity) THEN [movs[k] EXCEPT !.quantity = IntQ(0)]
        ELSE movs[k]]

\* C9: a movement whose quantity is missing or not numeric counts as 0: the
\* aggregation returns, and its frame is the one it computes with those
\* quantities replaced by 0.
C9_MalformedQuantityIsZero ==
    /\ ~CurrentView.raised
    /\ CurrentView.df = get_items_with_current_stock(items, C9_Zeroed(movements)).df

\* What a step may do to the three collections.
C10_FrameStep ==
    /\ Len(users') >= Len(users)
    /\ SubSeq(users', 1, Len(users)) = users
    /\ Len(movements') >= Len(movements)
    /\ SubSeq(movements', 1, Len(movements)) = movements
    /\ Len(items') >= Len(items)
    /\ \A i \in 1..Len(items) :
         items'[i] = [items[i] EXCEPT !.location = items'[i].location]

\* C10: no step removes or rewrites a user or a movement, removes an item or
\* changes an item's id, exhibitor_name, item_type or open_stock; location is
\* the only stored field a step changes.
C10_OnlyLocationChanges == [][C10_FrameStep]_vars

\* C10 witness: users, items and movements are stored and a movement save has
\* just overwritten a location that was empty when the item was created.
C10_Witness ==
    /\ shown = "Movement saved and location updated!"
    /\ users # <<>> /\ movements # <<>>
    /\ \E i \in 1..Len(items) : items[i].location # <<>>

\* The days the date picker offers, and the day a stored movement_date names.
C11_Days == {Day1, Day2}

C11_DayOf(text) == CHOOSE d \in C11_Days : isoformat(d) = text

\* Day d1 is earlier than day d2.
C11_Earlier(d1, d2) ==
    \/ d1.year < d2.year
    \/ d1.year = d2.year /\ d1.month < d2.month
    \/ d1.year = d2.year /\ d1.month = d2.month /\ d1.day < d2.day

\* The ids a history can be asked for: of the stored items, and any id that a
\* stored movement references.
C11_Ids ==
    {StrId(items[i]._id) : i \in 1..Len(items)}
        \cup {movements[k].stock_item_id : k \in 1..Len(movements)}

\* C11: get_movements_for_item returns exactly the movements whose
\* stock_item_id is the given id, each once, with the most recent
\* movement_date first, in whatever order they were inserted.
C11_HistoryMostRecentFirst ==
    \A id \in C11_Ids :
        LET hist == get_movements_for_item(movements, id)
            own == {k \in 1..Len(movements) : movements[k].stock_item_id = id}
        IN /\ ~hist.raised
           /\ Len(hist.df) = Cardinality(own)
           /\ \E f \in [1..Len(hist.df) -> own] :
                 /\ \A a, b \in 1..Len(hist.df) : f[a] = f[b] => a = b
                 /\ \A a \in 1..Len(hist.df) : hist.df[a] = HistoryRow(movements[f[a]])
           /\ \A a \in 1..(Len(hist.df) - 1) :
                 ~C11_Earlier(C11_DayOf(hist.df[a].movement_date),
                              C11_DayOf(hist.df[a + 1].movement_date))

\* C11 witness: a save has just completed, an IN on the first day was stored
\* before an OUT on the second day for the same item, and the history of the
\* item shows the second day first.
C11_Witness ==
    /\ shown = "Movement saved and location updated!"
    /\ Len(movements) = 2
    /\ movements[1].stock_item_id = movements[2].stock_item_id
    /\ movements[1].movement_type = TypeIN /\ movements[1].movement_date = isoformat(Day1)
    /\ movements[2].movement_type = TypeOUT /\ movements[2].movement_date = isoformat(Day2)
    /\ LET hist == get_movements_for_item(movements, movements[1].stock_item_id) IN
       /\ Len(hist.df) = 2
       /\ hist.df[1].movement_date = isoformat(Day2)
       /\ hist.df[2].movement_date = isoformat(Day1)

\* A session that is not logged in is in no run that writes items or
\* movements, and is inside create_user only through the first-run form.
C12_NoWriteRunLoggedOut ==
    \A s \in Sessions :
        session_user[s] = None
          => /\ run[s].pc \notin {"mv_insert", "mv_update"}
             /\ run[s].pc \in {"cu_find", "cu_insert"} => run[s].is_admin

\* Every step that writes an item or a movement is taken by the run of a
\* session whose user is logged in.
C12_StockStep ==
    /\ movements' # movements
         => \E s \in Sessions :
              /\ run[s].pc = "mv_insert" /\ run'[s].pc = "mv_update"
              /\ session_user[s] # None
    /\ (items' # items /\ Len(items') = Len(items))
         => \E s \in Sessions :
              /\ run[s].pc = "mv_update" /\ run'[s].pc = "idle"
              /\ session_user[s] # None
    /\ Len(items') # Len(items)
         => \A s \in Sessions :
              (\E c \in ExhibitorChoices, n \in ExhibitorInputs, t \in ItemTypeOptions,
                  o \in OpenStockInputs, l \in LocationInputs :
                    AddItemSubmit(s, c, n, t, o, l))
                => session_user[s] # None

\* Every step that adds a user is taken by the run of a session logged in as
\* an admin, or by a session that is not logged in while no user is stored.
C12_UserStep ==
    users' # users
      => \E s \in Sessions :
           /\ run[s].pc = "cu_insert" /\ run'[s].pc = "idle"
           /\ \/ session_user[s] # None /\ session_user[s][1].is_admin
              \/ session_user[s] = None /\ Len(users) = 0

\* C12: an item or movement write, the location update included, happens
\* only in a session whose user is logged in, and in no session between its
\* logout and its next login; a user is added only by a session logged in
\* with is_admin true, or by the first-run form while no user is stored.
C12_WritesAuthorised ==
    [](C12_NoWriteRunLoggedOut) /\ [][C12_StockStep /\ C12_UserStep]_vars

====
